---- MODULE Spec2Model ----
(***************************************************************************)
(* The mount table of pkg/mount/mount.go (type Mounter): the device map,   *)
(* the reverse index path -> device, the three tiers of locks (table lock, *)
(* per-device lock embedded in Info, per-path keylock), the backend        *)
(* (MountImpl) and the delayed removal of mount paths.                     *)
(*                                                                         *)
(* Every caller goroutine is a thread of Threads; a call is executed as a  *)
(* sequence of steps, one per lock acquisition, critical section, backend  *)
(* call or unsynchronised write, so that every interleaving the Go         *)
(* scheduler can produce at that granularity is a behaviour of the model.  *)
(* The writes to an Info's slice race with the readers of the table: each  *)
(* is a step of its own and shows in either order.  A reader that meets a  *)
(* nil element panics, which ends the program.                             *)
(***************************************************************************)
EXTENDS Integers, Sequences, FiniteSets, TLC

(***************************************************************************)
(* Bounds of the model.                                                    *)
(***************************************************************************)
\* total number of Mount/Unmount calls started in one behaviour
MaxCalls == 3
\* number of delayed-removal tasks the scheduler holds before it rejects
MaxTasks == 1

(***************************************************************************)
(* The universe of inputs.  A path is the sequence of its characters.      *)
(***************************************************************************)
Threads == {"t1", "t2"}
Schedulers == {"s1"}
Procs == Threads \cup Schedulers
Devices == {"d1", "d2"}
FsTypes == {"ext4", "xfs"}
Minors == {1}
PathA == <<"/", "a">>
PathASlash == <<"/", "a", "/">>
PathB == <<"/", "b">>
RawPaths == {PathA, PathASlash, PathB}
AllowedDirsChoices == {<<>>, <<PathA>>}

None == "none"
\* a nil *PathInfo, what a slot of a fresh backing array holds: it points to
\* no PathInfo, its Path here is a mark no path equals
NilPathInfo == [Path |-> <<"nil">>]

\* Mountpoint is the slice up to its length, Spare the slots of its backing
\* array between its length and its capacity
NoInfo == [Device |-> None, Minor |-> 0, Mountpoint |-> <<>>, Spare |-> <<>>,
           Fs |-> None]
NoCall == [op |-> None, minor |-> 0, device |-> None, path |-> <<>>,
           fs |-> None, removePath |-> FALSE]
NoTask == [pc |-> "idle", path |-> <<>>, mounted |-> FALSE, chattr |-> None]

\* the errors of lines 75-88, the wrapped chattr failure of line 351, the
\* error value a failing backend returns and the one a scheduler that rejects
\* a task returns
Ok == "nil"
ErrExist == "ErrExist"
ErrEnoent == "ErrEnoent"
ErrEinval == "ErrEinval"
ErrMountpathNotAllowed == "ErrMountpathNotAllowed"
ErrReadOnlyFailed == "Making mountpath readonly failed"
ErrBackend == "backend error"
ErrSchedule == "schedule error"

\* the run-time panic of p.Path on a nil p (lines 209, 228): nothing in the
\* package recovers it, the program ends
Panic == "panic: nil pointer dereference"

(***************************************************************************)
(* Pure helpers.                                                           *)
(***************************************************************************)
\* strings.HasSuffix(s, "/")
HasSuffixSlash(s) == Len(s) >= 1 /\ s[Len(s)] = "/"

\* strings.Contains(s, sub)
Contains(s, sub) ==
    \E i \in 0..(Len(s) - Len(sub)) : SubSeq(s, i + 1, i + Len(sub)) = sub

normalizeMountPath(mountPath) ==
    IF Len(mountPath) > 1 /\ HasSuffixSlash(mountPath)
    THEN SubSeq(mountPath, 1, Len(mountPath) - 1)
    ELSE mountPath

Paths == {normalizeMountPath(r) : r \in RawPaths}

\* lines 301-312: the allow-list check of Mount
PathAllowed(dirs, path) ==
    Len(dirs) > 0 => \E k \in 1..Len(dirs) : Contains(path, dirs[k])

\* one Info per device in the map and one per caller that still holds a
\* pointer to an Info the map has dropped
InfoIds == 1..(Cardinality(Devices) + Cardinality(Threads))

(***************************************************************************)
(* State.                                                                  *)
(***************************************************************************)
VARIABLES
    allowedDirs,  \* Mounter.allowedDirs, fixed at construction
    mounts,       \* Mounter.mounts: device -> *Info (0: no key)
    infos,        \* the heap of Info objects the pointers refer to
    ilock,        \* Info.Mutex: the caller holding each Info's lock
    paths,        \* Mounter.paths: path -> device (None: no key)
    mlock,        \* Mounter.Mutex: the holder of the table lock
    kl,           \* Mounter.kl: the holder of each path's keylock
    pc,           \* the place in the code each caller is at
    call,         \* the call each caller executes, its path normalized
    linfo,        \* each caller's local variable info (0: nil)
    lidx,         \* Unmount's loop index i of the matching mountpoint
    ret,          \* the value the caller's call returned
    touched,      \* whether the caller's call has changed the bookkeeping
    invoked,      \* whether the caller's call has invoked the backend
    overlap,      \* how close a call another caller ran beside this one
    dirs,         \* the file system: whether the directory exists
    immutable,    \* the file system: the directory's immutable attribute
    kmounts,      \* the backend: mounts stacked on each path
    tasks,        \* the scheduler: delayed-removal tasks waiting per path
    cb,           \* the scheduler: the callback each scheduler runs, with
                  \* what HasTarget answered and how chattr -i ended
    calls         \* number of calls started

mounterVars == <<allowedDirs, mounts, infos, ilock, paths, mlock, kl>>
callerVars == <<pc, call, linfo, lidx, ret, touched, invoked, overlap, calls>>
envVars == <<dirs, immutable, kmounts, tasks, cb>>
vars == <<mounterVars, callerVars, envVars>>

(***************************************************************************)
(* Views of the table: the inspection methods, each a snapshot taken       *)
(* under the table lock.  The table lock does not keep Mount and Unmount   *)
(* from writing an Info's slice (lines 358, 390, 391, under the Info lock  *)
(* only), so a snapshot can show a slice between the writes of an append   *)
(* or of a removal: every such slice is a state of the model.              *)
(***************************************************************************)
\* the paths of an Info's Mountpoint slice, in order (of a nil element, the
\* mark)
InfoPaths(info) == [i \in 1..Len(info.Mountpoint) |-> info.Mountpoint[i].Path]

Range(s) == {s[i] : i \in 1..Len(s)}

\* lines 163-173: what Mounts returns, unless MountsPanics
Mounts(sourcePath) ==
    IF mounts[sourcePath] = 0 THEN <<>>
    ELSE InfoPaths(infos[mounts[sourcePath]])

\* line 170: Mounts reads the Path of every element, a nil one too
MountsPanics(sourcePath) ==
    /\ mounts[sourcePath] # 0
    /\ \E k \in 1..Len(infos[mounts[sourcePath]].Mountpoint) :
            infos[mounts[sourcePath]].Mountpoint[k] = NilPathInfo

HasMounts(sourcePath) ==
    IF mounts[sourcePath] = 0 THEN 0
    ELSE Len(infos[mounts[sourcePath]].Mountpoint)

\* lines 223-231: the device has an entry and the loop over its slice comes
\* to the path, with no nil element before it
Exists(sourcePath, path) ==
    /\ mounts[sourcePath] # 0
    /\ LET mp == infos[mounts[sourcePath]].Mountpoint IN
        \E k \in 1..Len(mp) :
            /\ mp[k].Path = path
            /\ \A j \in 1..(k - 1) : mp[j] # NilPathInfo

GetSourcePaths == {d \in Devices : mounts[d] # 0}

\* the devices HasTarget / GetSourcePath can return for a path
HasTarget(targetPath) == {d \in Devices : Exists(d, targetPath)}

\* lines 208-209, 227-228, 242-243: the loop over an Info's slice comes to a
\* nil element before it comes to the path
ReachesNil(info, path) ==
    \E k \in 1..Len(info.Mountpoint) :
        /\ info.Mountpoint[k] = NilPathInfo
        /\ \A j \in 1..(k - 1) : info.Mountpoint[j].Path # path

(***************************************************************************)
(* Memory: an Info lives as long as the map or a caller points to it.      *)
(***************************************************************************)
Live(mnts, li) == {mnts[d] : d \in Devices} \cup {li[t] : t \in Threads}

Sweep(inf, mnts, li) ==
    [i \in InfoIds |-> IF i \in Live(mnts, li) THEN inf[i] ELSE NoInfo]

\* line 321: a fresh address for the new Info
NewInfoId == CHOOSE i \in InfoIds :
    /\ infos[i] = NoInfo
    /\ \A j \in InfoIds : j < i => infos[j] # NoInfo

(***************************************************************************)
(* What a step changed, recorded per call.                                 *)
(***************************************************************************)
InfoChanged ==
    \E i \in InfoIds :
        infos[i] # NoInfo /\ infos'[i] # NoInfo /\ infos'[i] # infos[i]

BookkeepingChanged == mounts' # mounts \/ paths' # paths \/ InfoChanged

Track(t) == touched' = [touched EXCEPT ![t] = @ \/ BookkeepingChanged]

\* two calls: 2 on the same device and path, 1 on the same device, else 0
Closeness(c1, c2) ==
    IF c1.device # c2.device THEN 0 ELSE IF c1.path = c2.path THEN 2 ELSE 1

Max(a, b) == IF a >= b THEN a ELSE b

\* caller t starts call c: the closest call in progress counts for t, and c
\* counts for every caller in a call or still looking at its result
Overlaps(t, c) ==
    [u \in Threads |->
        IF u = t
        THEN IF \E v \in Threads \ {t} : pc[v] \notin {"idle", "done"} /\
                    Closeness(call[v], c) = 2 THEN 2
             ELSE IF \E v \in Threads \ {t} : pc[v] \notin {"idle", "done"} /\
                    Closeness(call[v], c) = 1 THEN 1
             ELSE 0
        ELSE IF pc[u] = "idle" THEN 0
        ELSE Max(overlap[u], Closeness(call[u], c))]

Init ==
    /\ allowedDirs \in AllowedDirsChoices
    /\ mounts = [d \in Devices |-> 0]
    /\ infos = [i \in InfoIds |-> NoInfo]
    /\ ilock = [i \in InfoIds |-> None]
    /\ paths = [p \in Paths |-> None]
    /\ mlock = None
    /\ kl = [p \in Paths |-> None]
    /\ pc = [t \in Threads |-> "idle"]
    /\ call = [t \in Threads |-> NoCall]
    /\ linfo = [t \in Threads |-> 0]
    /\ lidx = [t \in Threads |-> 0]
    /\ ret = [t \in Threads |-> None]
    /\ touched = [t \in Threads |-> FALSE]
    /\ invoked = [t \in Threads |-> FALSE]
    /\ overlap = [t \in Threads |-> 0]
    /\ dirs = [p \in Paths |-> TRUE]
    /\ immutable = [p \in Paths |-> FALSE]
    /\ kmounts = [p \in Paths |-> 0]
    /\ tasks = [p \in Paths |-> 0]
    /\ cb = [s \in Schedulers |-> NoTask]
    /\ calls = 0

(***************************************************************************)
(* Returning from a call: the deferred unlocks run, the local pointer to   *)
(* the Info dies.                                                          *)
(***************************************************************************)
Returns(t, r) ==
    /\ pc' = [pc EXCEPT ![t] = "done"]
    /\ ret' = [ret EXCEPT ![t] = r]
    /\ linfo' = [linfo EXCEPT ![t] = 0]
    /\ lidx' = [lidx EXCEPT ![t] = 0]

\* defer info.Unlock() (lines 331, 376)
InfoUnlocked(t) == [i \in InfoIds |-> IF ilock[i] = t THEN None ELSE ilock[i]]

\* defer m.kl.Release(&h) (lines 348, 409)
KlReleased(p) == [q \in Paths |-> IF kl[q] = p THEN None ELSE kl[q]]

Goto(t, label) == pc' = [pc EXCEPT ![t] = label]

\* a caller or a callback has panicked: the program has ended, nothing runs
Crashed ==
    \/ \E t \in Threads : pc[t] = "panic"
    \/ \E s \in Schedulers : cb[s].pc = "panic"

\* caller t is at a place of the code, in a program that still runs
At(t, label) == pc[t] = label /\ ~Crashed

\* the callback of scheduler s is at a place of the code
CbAt(s, label) == cb[s].pc = label /\ ~Crashed

(***************************************************************************)
(* Mount (lines 293-361).                                                  *)
(***************************************************************************)
\* lines 300-312: the call starts, the path is normalized and checked
\* against the allow-list
MountCall(t, minor, device, rawPath, fs) ==
    /\ At(t, "idle")
    /\ calls' = calls + 1
    /\ LET path == normalizeMountPath(rawPath) IN
        /\ call' = [call EXCEPT ![t] = [op |-> "Mount", minor |-> minor,
                        device |-> device, path |-> path, fs |-> fs,
                        removePath |-> FALSE]]
        /\ overlap' = Overlaps(t, call'[t])
        /\ IF PathAllowed(allowedDirs, path)
           THEN /\ Goto(t, "hasPath")
                /\ UNCHANGED <<ret, linfo, lidx>>
           ELSE Returns(t, ErrMountpathNotAllowed)
    /\ UNCHANGED <<mounterVars, envVars, touched, invoked>>

\* line 270: hasPath takes the table lock
MountHasPathLock(t) ==
    /\ At(t, "hasPath")
    /\ mlock = None
    /\ mlock' = t
    /\ Goto(t, "hasPathCS")
    /\ UNCHANGED <<allowedDirs, mounts, infos, ilock, paths, kl>>
    /\ UNCHANGED <<call, linfo, lidx, ret, touched, invoked, overlap, calls, envVars>>

\* the check of line 314 left out
ClaimedElsewhereNever(device, path) == FALSE

\* line 314: the path is claimed by another device
ClaimedElsewhere(device, path) == paths[path] # None /\ paths[path] # device

\* lines 271-274 and 313-317
MountHasPath(t) ==
    /\ At(t, "hasPathCS")
    /\ mlock = t
    /\ mlock' = None
    /\ IF ClaimedElsewhere(call[t].device, call[t].path)
       THEN Returns(t, ErrExist)
       ELSE /\ Goto(t, "mLookup")
            /\ UNCHANGED <<ret, linfo, lidx>>
    /\ UNCHANGED <<allowedDirs, mounts, infos, ilock, paths, kl>>
    /\ UNCHANGED <<call, touched, invoked, overlap, calls, envVars>>

\* line 318
MountLookupLock(t) ==
    /\ At(t, "mLookup")
    /\ mlock = None
    /\ mlock' = t
    /\ Goto(t, "mLookupCS")
    /\ UNCHANGED <<allowedDirs, mounts, infos, ilock, paths, kl>>
    /\ UNCHANGED <<call, linfo, lidx, ret, touched, invoked, overlap, calls, envVars>>

\* lines 321-326: a new, empty Info
NewInfo(minor, device, fs) ==
    [Device |-> device, Minor |-> minor, Mountpoint |-> <<>>, Spare |-> <<>>,
     Fs |-> fs]

\* lines 319-329: fetch the device's Info or create and insert one
MountLookup(t) ==
    /\ At(t, "mLookupCS")
    /\ mlock = t
    /\ mlock' = None
    /\ IF mounts[call[t].device] # 0
       THEN /\ linfo' = [linfo EXCEPT ![t] = mounts[call[t].device]]
            /\ UNCHANGED <<mounts, infos>>
       ELSE /\ linfo' = [linfo EXCEPT ![t] = NewInfoId]
            /\ infos' = [infos EXCEPT ![NewInfoId] =
                            NewInfo(call[t].minor, call[t].device, call[t].fs)]
            /\ mounts' = [mounts EXCEPT ![call[t].device] = NewInfoId]
    /\ Goto(t, "mInfoLock")
    /\ UNCHANGED <<allowedDirs, ilock, paths, kl>>
    /\ UNCHANGED <<call, lidx, ret, invoked, overlap, calls, envVars>>
    /\ Track(t)

\* the validation of line 334 left out
FsMismatchNever(info, fs) == FALSE

\* the search of lines 341-345 never finding the path
AlreadyMountedNever(info, path) == FALSE

\* line 334
FsMismatch(info, fs) == fs # info.Fs

\* lines 341-345
AlreadyMounted(info, path) ==
    \E i \in 1..Len(info.Mountpoint) : info.Mountpoint[i].Path = path

\* lines 330-345: lock the Info, validate, look for the mountpoint
MountInfoLock(t) ==
    /\ At(t, "mInfoLock")
    /\ ilock[linfo[t]] = None
    /\ IF FsMismatch(infos[linfo[t]], call[t].fs)
       THEN /\ Returns(t, ErrEinval)
            /\ infos' = Sweep(infos, mounts, linfo')
            /\ UNCHANGED ilock
       ELSE IF AlreadyMounted(infos[linfo[t]], call[t].path)
       THEN /\ Returns(t, Ok)
            /\ infos' = Sweep(infos, mounts, linfo')
            /\ UNCHANGED ilock
       ELSE /\ ilock' = [ilock EXCEPT ![linfo[t]] = t]
            /\ Goto(t, "mKlAcquire")
            /\ UNCHANGED <<ret, linfo, lidx, infos>>
    /\ UNCHANGED <<allowedDirs, mounts, paths, mlock, kl>>
    /\ UNCHANGED <<call, invoked, overlap, calls, envVars>>
    /\ Track(t)

\* line 347
MountKlAcquire(t) ==
    /\ At(t, "mKlAcquire")
    /\ kl[call[t].path] = None
    /\ kl' = [kl EXCEPT ![call[t].path] = t]
    /\ Goto(t, "mReadOnly")
    /\ UNCHANGED <<allowedDirs, mounts, infos, ilock, paths, mlock>>
    /\ UNCHANGED <<call, linfo, lidx, ret, touched, invoked, overlap, calls, envVars>>

\* lines 350-352 and 433-441: chattr +i on an existing directory
MountReadOnly(t) ==
    /\ At(t, "mReadOnly")
    /\ \E chattrOk \in BOOLEAN :
        IF dirs[call[t].path] /\ ~chattrOk
        THEN /\ Returns(t, ErrReadOnlyFailed)
             /\ infos' = Sweep(infos, mounts, linfo')
             /\ ilock' = InfoUnlocked(t)
             /\ kl' = KlReleased(t)
             /\ UNCHANGED immutable
        ELSE /\ immutable' = [immutable EXCEPT ![call[t].path] =
                                @ \/ dirs[call[t].path]]
             /\ Goto(t, "mBackend")
             /\ UNCHANGED <<ret, linfo, lidx, infos, ilock, kl>>
    /\ UNCHANGED <<allowedDirs, mounts, paths, mlock>>
    /\ UNCHANGED <<call, invoked, overlap, calls, dirs, kmounts, tasks, cb>>
    /\ Track(t)

\* lines 355-357: the backend mounts or fails
MountBackend(t) ==
    /\ At(t, "mBackend")
    /\ invoked' = [invoked EXCEPT ![t] = TRUE]
    /\ \E mountOk \in BOOLEAN :
        IF mountOk
        THEN /\ kmounts' = [kmounts EXCEPT ![call[t].path] = @ + 1]
             /\ Goto(t, "mAppend")
             /\ UNCHANGED <<ret, linfo, lidx, infos, ilock, kl>>
        ELSE /\ Returns(t, ErrBackend)
             /\ infos' = Sweep(infos, mounts, linfo')
             /\ ilock' = InfoUnlocked(t)
             /\ kl' = KlReleased(t)
             /\ UNCHANGED kmounts
    /\ UNCHANGED <<allowedDirs, mounts, paths, mlock>>
    /\ UNCHANGED <<call, overlap, calls, dirs, immutable, tasks, cb>>
    /\ Track(t)

\* append's growth of a full backing array: from nothing to one slot, then
\* doubling
GrowCap(oldCap) == IF oldCap = 0 THEN 1 ELSE 2 * oldCap

\* line 358: the spare slots once append has used one: a full array is
\* replaced by a larger one whose other new slots are nil
AppendedSpare(info) ==
    IF info.Spare = <<>>
    THEN [i \in 1..(GrowCap(Len(info.Mountpoint)) - Len(info.Mountpoint) - 1)
            |-> NilPathInfo]
    ELSE Tail(info.Spare)

\* line 358: what the slot append writes to holds before the write: nil in
\* a new array, else what an earlier Unmount left there
SlotBeforeStore(info) ==
    IF info.Spare = <<>> THEN NilPathInfo ELSE Head(info.Spare)

\* line 358: append stores the element and the longer slice.  The readers
\* of Mountpoint hold the table lock only (lines 147-249), this write the
\* Info lock only: nothing orders the two stores for a reader, which sees
\* the whole append at once, or the longer slice before its last element
MountAppend(t) ==
    /\ At(t, "mAppend")
    /\ LET info == infos[linfo[t]] IN
        \/ /\ infos' = [infos EXCEPT ![linfo[t]] =
                    [info EXCEPT !.Mountpoint =
                                    Append(@, [Path |-> call[t].path]),
                                 !.Spare = AppendedSpare(info)]]
           /\ Goto(t, "addPath")
        \/ /\ infos' = [infos EXCEPT ![linfo[t]] =
                    [info EXCEPT !.Mountpoint =
                                    Append(@, SlotBeforeStore(info)),
                                 !.Spare = AppendedSpare(info)]]
           /\ Goto(t, "mAppendElement")
    /\ UNCHANGED <<allowedDirs, mounts, ilock, paths, mlock, kl>>
    /\ UNCHANGED <<call, linfo, lidx, ret, invoked, overlap, calls, envVars>>
    /\ Track(t)

\* line 358: the element reaches the last slot of the longer slice
MountAppendElement(t) ==
    /\ At(t, "mAppendElement")
    /\ LET mp == infos[linfo[t]].Mountpoint IN
        infos' = [infos EXCEPT ![linfo[t]].Mountpoint =
                    [mp EXCEPT ![Len(mp)] = [Path |-> call[t].path]]]
    /\ Goto(t, "addPath")
    /\ UNCHANGED <<allowedDirs, mounts, ilock, paths, mlock, kl>>
    /\ UNCHANGED <<call, linfo, lidx, ret, invoked, overlap, calls, envVars>>
    /\ Track(t)

\* line 277: addPath takes the table lock
MountAddPathLock(t) ==
    /\ At(t, "addPath")
    /\ mlock = None
    /\ mlock' = t
    /\ Goto(t, "addPathCS")
    /\ UNCHANGED <<allowedDirs, mounts, infos, ilock, paths, kl>>
    /\ UNCHANGED <<call, linfo, lidx, ret, touched, invoked, overlap, calls, envVars>>

\* the reverse index assigned a new map holding the one record, where line
\* 279 inserts into the map there is
addPathReplacingIndex(index, path, device) ==
    [p \in Paths |-> IF p = path THEN device ELSE None]

\* line 279: m.paths[path] = device
addPath(index, path, device) == [index EXCEPT ![path] = device]

\* lines 278-279 and 360: record path -> device, return nil
MountAddPath(t) ==
    /\ At(t, "addPathCS")
    /\ mlock = t
    /\ mlock' = None
    /\ paths' = addPath(paths, call[t].path, call[t].device)
    /\ Returns(t, Ok)
    /\ infos' = Sweep(infos, mounts, linfo')
    /\ ilock' = InfoUnlocked(t)
    /\ kl' = KlReleased(t)
    /\ UNCHANGED <<allowedDirs, mounts>>
    /\ UNCHANGED <<call, invoked, overlap, calls, envVars>>
    /\ Track(t)

(***************************************************************************)
(* Unmount (lines 365-401).                                                *)
(***************************************************************************)
\* lines 365-368: the call starts and waits for the table lock
UnmountCall(t, device, rawPath, removePath) ==
    /\ At(t, "idle")
    /\ calls' = calls + 1
    /\ call' = [call EXCEPT ![t] = [op |-> "Unmount", minor |-> 0,
                    device |-> device, path |-> normalizeMountPath(rawPath),
                    fs |-> None, removePath |-> removePath]]
    /\ overlap' = Overlaps(t, call'[t])
    /\ Goto(t, "uLookup")
    /\ UNCHANGED <<mounterVars, envVars, ret, linfo, lidx, touched, invoked>>

\* line 366
UnmountLookupLock(t) ==
    /\ At(t, "uLookup")
    /\ mlock = None
    /\ mlock' = t
    /\ Goto(t, "uLookupCS")
    /\ UNCHANGED <<allowedDirs, mounts, infos, ilock, paths, kl>>
    /\ UNCHANGED <<call, linfo, lidx, ret, touched, invoked, overlap, calls, envVars>>

\* lines 369-374
UnmountLookup(t) ==
    /\ At(t, "uLookupCS")
    /\ mlock = t
    /\ mlock' = None
    /\ IF mounts[call[t].device] = 0
       THEN Returns(t, ErrEnoent)
       ELSE /\ linfo' = [linfo EXCEPT ![t] = mounts[call[t].device]]
            /\ Goto(t, "uInfoLock")
            /\ UNCHANGED <<ret, lidx>>
    /\ UNCHANGED <<allowedDirs, mounts, infos, ilock, paths, kl>>
    /\ UNCHANGED <<call, touched, invoked, overlap, calls, envVars>>

\* the loop of lines 377-380 without the comparison of line 378
FindMountpointAny(info, path) == IF Len(info.Mountpoint) > 0 THEN 1 ELSE 0

\* lines 377-380: the index of the first mountpoint with the path, 0 if none
FindMountpoint(info, path) ==
    IF AlreadyMounted(info, path)
    THEN CHOOSE i \in 1..Len(info.Mountpoint) :
            /\ info.Mountpoint[i].Path = path
            /\ \A j \in 1..(i - 1) : info.Mountpoint[j].Path # path
    ELSE 0

\* lines 375-380 and 399-400: lock the Info and scan its mountpoints
UnmountInfoLock(t) ==
    /\ At(t, "uInfoLock")
    /\ ilock[linfo[t]] = None
    /\ IF FindMountpoint(infos[linfo[t]], call[t].path) = 0
       THEN /\ Returns(t, Ok)
            /\ infos' = Sweep(infos, mounts, linfo')
            /\ UNCHANGED ilock
       ELSE /\ ilock' = [ilock EXCEPT ![linfo[t]] = t]
            /\ lidx' = [lidx EXCEPT ![t] =
                            FindMountpoint(infos[linfo[t]], call[t].path)]
            /\ Goto(t, "uBackend")
            /\ UNCHANGED <<ret, linfo, infos>>
    /\ UNCHANGED <<allowedDirs, mounts, paths, mlock, kl>>
    /\ UNCHANGED <<call, invoked, overlap, calls, envVars>>
    /\ Track(t)

\* lines 381-388 with the path deleted from the reverse index before the
\* backend is called
UnmountBackendAfterDelete(t) ==
    /\ At(t, "uBackend")
    /\ invoked' = [invoked EXCEPT ![t] = TRUE]
    /\ paths' = [paths EXCEPT ![call[t].path] = None]
    /\ \E unmountOk \in BOOLEAN :
        IF unmountOk
        THEN /\ kmounts' = [kmounts EXCEPT ![call[t].path] =
                                IF @ > 0 THEN @ - 1 ELSE 0]
             /\ Goto(t, "uDeletePath")
             /\ UNCHANGED <<ret, linfo, lidx, infos, ilock>>
        ELSE /\ Returns(t, ErrBackend)
             /\ infos' = Sweep(infos, mounts, linfo')
             /\ ilock' = InfoUnlocked(t)
             /\ UNCHANGED kmounts
    /\ UNCHANGED <<allowedDirs, mounts, mlock, kl>>
    /\ UNCHANGED <<call, overlap, calls, dirs, immutable, tasks, cb>>
    /\ Track(t)

\* lines 381-384: the backend unmounts or fails
UnmountBackend(t) ==
    /\ At(t, "uBackend")
    /\ invoked' = [invoked EXCEPT ![t] = TRUE]
    /\ \E unmountOk \in BOOLEAN :
        IF unmountOk
        THEN /\ kmounts' = [kmounts EXCEPT ![call[t].path] =
                                IF @ > 0 THEN @ - 1 ELSE 0]
             /\ Goto(t, "uDeletePath")
             /\ UNCHANGED <<ret, linfo, lidx, infos, ilock>>
        ELSE /\ Returns(t, ErrBackend)
             /\ infos' = Sweep(infos, mounts, linfo')
             /\ ilock' = InfoUnlocked(t)
             /\ UNCHANGED kmounts
    /\ UNCHANGED <<allowedDirs, mounts, paths, mlock, kl>>
    /\ UNCHANGED <<call, overlap, calls, dirs, immutable, tasks, cb>>
    /\ Track(t)

\* line 283: deletePath takes the table lock
UnmountDeletePathLock(t) ==
    /\ At(t, "uDeletePath")
    /\ mlock = None
    /\ mlock' = t
    /\ Goto(t, "uDeletePathCS")
    /\ UNCHANGED <<allowedDirs, mounts, infos, ilock, paths, kl>>
    /\ UNCHANGED <<call, linfo, lidx, ret, touched, invoked, overlap, calls, envVars>>

\* lines 284-289 and 385-388
UnmountDeletePath(t) ==
    /\ At(t, "uDeletePathCS")
    /\ mlock = t
    /\ mlock' = None
    /\ paths' = [paths EXCEPT ![call[t].path] = None]
    /\ Goto(t, "uSwap")
    /\ UNCHANGED <<allowedDirs, mounts, infos, ilock, kl>>
    /\ UNCHANGED <<call, linfo, lidx, ret, invoked, overlap, calls, envVars>>
    /\ Track(t)

\* line 390: the last mountpoint is copied over the one that goes
UnmountSwap(t) ==
    /\ At(t, "uSwap")
    /\ LET mp == infos[linfo[t]].Mountpoint IN
        infos' = [infos EXCEPT ![linfo[t]].Mountpoint =
                    [mp EXCEPT ![lidx[t]] = mp[Len(mp)]]]
    /\ Goto(t, "uTruncate")
    /\ UNCHANGED <<allowedDirs, mounts, ilock, paths, mlock, kl>>
    /\ UNCHANGED <<call, linfo, lidx, ret, invoked, overlap, calls, envVars>>
    /\ Track(t)

\* line 391: the slice with its last element cut off; the element stays
\* in the backing array, in the first spare slot
Truncated(info) ==
    [info EXCEPT !.Mountpoint = SubSeq(@, 1, Len(@) - 1),
                 !.Spare = <<info.Mountpoint[Len(info.Mountpoint)]>> \o @]

\* line 391: the slice loses its last element
UnmountTruncate(t) ==
    /\ At(t, "uTruncate")
    /\ infos' = [infos EXCEPT ![linfo[t]] = Truncated(@)]
    /\ Goto(t, "uMaybeRemove")
    /\ UNCHANGED <<allowedDirs, mounts, ilock, paths, mlock, kl>>
    /\ UNCHANGED <<call, linfo, lidx, ret, invoked, overlap, calls, envVars>>
    /\ Track(t)

\* lines 390-391: like line 358, these two writes are ordered for no
\* reader: the shorter slice of line 391 may show first
UnmountTruncateEarly(t) ==
    /\ At(t, "uSwap")
    /\ infos' = [infos EXCEPT ![linfo[t]] = Truncated(@)]
    /\ Goto(t, "uSwapLate")
    /\ UNCHANGED <<allowedDirs, mounts, ilock, paths, mlock, kl>>
    /\ UNCHANGED <<call, linfo, lidx, ret, invoked, overlap, calls, envVars>>
    /\ Track(t)

\* line 390, showing after line 391: the element that was last is copied
\* over the one that goes, unless that one was the last itself
UnmountSwapLate(t) ==
    /\ At(t, "uSwapLate")
    /\ LET info == infos[linfo[t]] IN
        infos' = [infos EXCEPT ![linfo[t]].Mountpoint =
                    IF lidx[t] <= Len(info.Mountpoint)
                    THEN [@ EXCEPT ![lidx[t]] = Head(info.Spare)]
                    ELSE @]
    /\ Goto(t, "uMaybeRemove")
    /\ UNCHANGED <<allowedDirs, mounts, ilock, paths, mlock, kl>>
    /\ UNCHANGED <<call, linfo, lidx, ret, invoked, overlap, calls, envVars>>
    /\ Track(t)

\* line 259: maybeRemoveDevice takes the table lock
UnmountMaybeRemoveLock(t) ==
    /\ At(t, "uMaybeRemove")
    /\ mlock = None
    /\ mlock' = t
    /\ Goto(t, "uMaybeRemoveCS")
    /\ UNCHANGED <<allowedDirs, mounts, infos, ilock, paths, kl>>
    /\ UNCHANGED <<call, linfo, lidx, ret, touched, invoked, overlap, calls, envVars>>

\* lines 261-266: the map after maybeRemoveDevice(device)
maybeRemoveDevice(device) ==
    IF mounts[device] # 0 /\ Len(infos[mounts[device]].Mountpoint) = 0
    THEN [mounts EXCEPT ![device] = 0]
    ELSE mounts

\* lines 260-267 and 392-397
UnmountMaybeRemove(t) ==
    /\ At(t, "uMaybeRemoveCS")
    /\ mlock = t
    /\ mlock' = None
    /\ mounts' = maybeRemoveDevice(call[t].device)
    /\ IF call[t].removePath
       THEN /\ Goto(t, "uRemovePath")
            /\ infos' = Sweep(infos, mounts', linfo)
            /\ UNCHANGED <<ret, linfo, lidx, ilock>>
       ELSE /\ Returns(t, Ok)
            /\ infos' = Sweep(infos, mounts', linfo')
            /\ ilock' = InfoUnlocked(t)
    /\ UNCHANGED <<allowedDirs, paths, kl>>
    /\ UNCHANGED <<call, invoked, overlap, calls, envVars>>
    /\ Track(t)

\* lines 406-424: the scheduler takes the task, unless it rejects it
Scheduled(path, accepted) == accepted /\ tasks[path] < MaxTasks

\* lines 425-430: what RemoveMountPath returns once it has called Schedule,
\* the scheduler's error when the task is rejected
RemoveMountPathResult(path, accepted) ==
    IF Scheduled(path, accepted) THEN Ok ELSE ErrSchedule

\* lines 393-397 and 405: Unmount calls RemoveMountPath, which looks for the
\* directory (os.Stat) and has nothing to schedule when there is none; it
\* holds no lock of the path, the directory can go before Schedule is called
UnmountRemovePath(t) ==
    /\ At(t, "uRemovePath")
    /\ IF dirs[call[t].path]
       THEN /\ Goto(t, "uSchedule")
            /\ UNCHANGED <<ret, linfo, lidx, infos, ilock>>
       ELSE /\ Returns(t, Ok)
            /\ infos' = Sweep(infos, mounts, linfo')
            /\ ilock' = InfoUnlocked(t)
    /\ UNCHANGED <<allowedDirs, mounts, paths, mlock, kl>>
    /\ UNCHANGED <<call, invoked, overlap, calls, envVars>>
    /\ Track(t)

\* lines 406-427 and 394-397: Schedule is called; Unmount drops the result
\* of RemoveMountPath and returns nil
UnmountSchedule(t) ==
    /\ At(t, "uSchedule")
    /\ \E accepted \in BOOLEAN :
        tasks' = [tasks EXCEPT ![call[t].path] =
                    IF Scheduled(call[t].path, accepted) THEN @ + 1 ELSE @]
    /\ Returns(t, Ok)
    /\ infos' = Sweep(infos, mounts, linfo')
    /\ ilock' = InfoUnlocked(t)
    /\ UNCHANGED <<allowedDirs, mounts, paths, mlock, kl>>
    /\ UNCHANGED <<call, invoked, overlap, calls, dirs, immutable, kmounts, cb>>
    /\ Track(t)

\* lines 404-405 and 430: RemoveMountPath called by a driver, with a path as
\* Mount records it; it takes no lock, looks for the directory (os.Stat)
\* and returns nil when there is none
RemoveMountPathCall(t, path) ==
    /\ At(t, "idle")
    /\ calls' = calls + 1
    /\ call' = [call EXCEPT ![t] = [op |-> "RemoveMountPath", minor |-> 0,
                    device |-> None, path |-> path, fs |-> None,
                    removePath |-> FALSE]]
    /\ overlap' = Overlaps(t, call'[t])
    /\ IF dirs[path]
       THEN /\ Goto(t, "rSchedule")
            /\ UNCHANGED <<ret, linfo, lidx>>
       ELSE Returns(t, Ok)
    /\ UNCHANGED <<mounterVars, envVars, touched, invoked>>

\* lines 406-430: Schedule is called, for a directory that was there at line
\* 405; RemoveMountPath returns the scheduler's error
RemoveMountPathSchedule(t) ==
    /\ At(t, "rSchedule")
    /\ \E accepted \in BOOLEAN :
        /\ tasks' = [tasks EXCEPT ![call[t].path] =
                        IF Scheduled(call[t].path, accepted) THEN @ + 1 ELSE @]
        /\ Returns(t, RemoveMountPathResult(call[t].path, accepted))
    /\ UNCHANGED <<mounterVars, call, touched, invoked, overlap, calls>>
    /\ UNCHANGED <<dirs, immutable, kmounts, cb>>

(***************************************************************************)
(* Inspection (lines 147-249): every inspection method takes the table     *)
(* lock, reads and releases it on return; Exists stands for them.          *)
(***************************************************************************)
\* line 219: the call starts and waits for the table lock
ExistsCall(t, device, path) ==
    /\ At(t, "idle")
    /\ calls' = calls + 1
    /\ call' = [call EXCEPT ![t] = [op |-> "Exists", minor |-> 0,
                    device |-> device, path |-> path, fs |-> None,
                    removePath |-> FALSE]]
    /\ Goto(t, "eLock")
    /\ UNCHANGED <<mounterVars, envVars>>
    /\ UNCHANGED <<ret, linfo, lidx, touched, invoked, overlap>>

\* line 220
ExistsLock(t) ==
    /\ At(t, "eLock")
    /\ mlock = None
    /\ mlock' = t
    /\ Goto(t, "eCS")
    /\ UNCHANGED <<allowedDirs, mounts, infos, ilock, paths, kl>>
    /\ UNCHANGED <<call, linfo, lidx, ret, touched, invoked, overlap, calls, envVars>>

\* lines 223-232: (false, ErrEnoent), (true, nil), (false, nil), or the
\* panic of line 228 on the nil element of a slice caught inside line 358
ExistsResult(device, path) ==
    IF mounts[device] = 0 THEN ErrEnoent
    ELSE IF ReachesNil(infos[mounts[device]], path) THEN Panic
    ELSE IF Exists(device, path) THEN "true" ELSE "false"

\* lines 221-232: read under the table lock, unlock, return or panic
ExistsRead(t) ==
    /\ At(t, "eCS")
    /\ mlock = t
    /\ mlock' = None
    /\ LET r == ExistsResult(call[t].device, call[t].path) IN
        IF r = Panic
        THEN /\ Goto(t, "panic")
             /\ ret' = [ret EXCEPT ![t] = Panic]
             /\ UNCHANGED <<linfo, lidx>>
        ELSE Returns(t, r)
    /\ UNCHANGED <<allowedDirs, mounts, infos, ilock, paths, kl>>
    /\ UNCHANGED <<call, touched, invoked, overlap, calls, envVars>>

\* the caller has its result and is free for its next call
Finish(t) ==
    /\ At(t, "done")
    /\ pc' = [pc EXCEPT ![t] = "idle"]
    /\ call' = [call EXCEPT ![t] = NoCall]
    /\ ret' = [ret EXCEPT ![t] = None]
    /\ touched' = [touched EXCEPT ![t] = FALSE]
    /\ invoked' = [invoked EXCEPT ![t] = FALSE]
    /\ overlap' = [overlap EXCEPT ![t] = 0]
    /\ UNCHANGED <<mounterVars, envVars, linfo, lidx, calls>>

(***************************************************************************)
(* The delayed-removal callback (lines 407-421) and makeMountpathWriteable *)
(* (lines 443-456), run by the scheduler.                                  *)
(***************************************************************************)
\* the delay has passed: the scheduler starts a waiting task
CallbackStart(s) ==
    /\ CbAt(s, "idle")
    /\ \E p \in Paths :
        /\ tasks[p] > 0
        /\ tasks' = [tasks EXCEPT ![p] = @ - 1]
        /\ cb' = [cb EXCEPT ![s] = [pc |-> "cKlAcquire", path |-> p,
                                    mounted |-> FALSE, chattr |-> None]]
    /\ UNCHANGED <<mounterVars, callerVars, dirs, immutable, kmounts>>

\* line 408
CallbackKlAcquire(s) ==
    /\ CbAt(s, "cKlAcquire")
    /\ kl[cb[s].path] = None
    /\ kl' = [kl EXCEPT ![cb[s].path] = s]
    /\ cb' = [cb EXCEPT ![s].pc = "cHasTarget"]
    /\ UNCHANGED <<allowedDirs, mounts, infos, ilock, paths, mlock>>
    /\ UNCHANGED <<callerVars, dirs, immutable, kmounts, tasks>>

\* line 204: HasTarget takes the table lock
CallbackHasTargetLock(s) ==
    /\ CbAt(s, "cHasTarget")
    /\ mlock = None
    /\ mlock' = s
    /\ cb' = [cb EXCEPT ![s].pc = "cHasTargetCS"]
    /\ UNCHANGED <<allowedDirs, mounts, infos, ilock, paths, kl>>
    /\ UNCHANGED <<callerVars, dirs, immutable, kmounts, tasks>>

\* lines 207-214: what HasTarget can do, the map being ranged over in any
\* order: find the path, panic on a nil element met first (line 209), or
\* get through every slice without either
HasTargetOutcomes(targetPath) ==
    LET nil == \E d \in Devices :
                  mounts[d] # 0 /\ ReachesNil(infos[mounts[d]], targetPath)
    IN  {o \in {"found", "absent", Panic} :
            \/ o = "found" /\ HasTarget(targetPath) # {}
            \/ o = "absent" /\ HasTarget(targetPath) = {} /\ ~nil
            \/ o = Panic /\ nil}

\* lines 205-214 and 444; a panic runs the deferred unlock of line 205 and
\* the deferred release of line 409 and ends the program
CallbackHasTarget(s) ==
    /\ CbAt(s, "cHasTargetCS")
    /\ mlock = s
    /\ mlock' = None
    /\ \E o \in HasTargetOutcomes(cb[s].path) :
        IF o = Panic
        THEN /\ cb' = [cb EXCEPT ![s].pc = "panic"]
             /\ kl' = KlReleased(s)
        ELSE /\ cb' = [cb EXCEPT ![s].pc = "cWriteable",
                                 ![s].mounted = (o = "found")]
             /\ UNCHANGED kl
    /\ UNCHANGED <<allowedDirs, mounts, infos, ilock, paths>>
    /\ UNCHANGED <<callerVars, dirs, immutable, kmounts, tasks>>

\* lines 444-449: chattr -i is run when the path is not mounted and exists
ChattrRuns(s) == ~cb[s].mounted /\ dirs[cb[s].path]

\* lines 444-455 and 411-414: chattr -i succeeds or fails; the error returned
\* on line 449 is os.Stat's, which is nil there, so the callback goes on
CallbackWriteable(s) ==
    /\ CbAt(s, "cWriteable")
    /\ \E chattrOk \in BOOLEAN :
        /\ immutable' = [immutable EXCEPT ![cb[s].path] =
                IF ChattrRuns(s) /\ chattrOk THEN FALSE ELSE @]
        /\ cb' = [cb EXCEPT ![s].pc = "cRemove",
                            ![s].chattr = IF ~ChattrRuns(s) THEN None
                                          ELSE IF chattrOk THEN "ok"
                                          ELSE "failed"]
    /\ UNCHANGED <<mounterVars, callerVars, dirs, kmounts, tasks>>

\* os.Remove succeeds only on an existing, mutable directory nothing is
\* mounted on
Removable(path) == dirs[path] /\ ~immutable[path] /\ kmounts[path] = 0

\* lines 416-420 and 409: os.Remove, then the keylock is released
CallbackRemove(s) ==
    /\ CbAt(s, "cRemove")
    /\ \E removeOk \in BOOLEAN :
        dirs' = [dirs EXCEPT ![cb[s].path] =
                    IF Removable(cb[s].path) /\ removeOk THEN FALSE ELSE @]
    /\ kl' = KlReleased(s)
    /\ cb' = [cb EXCEPT ![s] = NoTask]
    /\ UNCHANGED <<allowedDirs, mounts, infos, ilock, paths, mlock>>
    /\ UNCHANGED <<callerVars, immutable, kmounts, tasks>>

(***************************************************************************)
(* The specification: callers start any call with any input, the scheduler *)
(* runs the delayed callbacks.                                             *)
(***************************************************************************)
MountStep(t) ==
    \/ MountHasPathLock(t)
    \/ MountHasPath(t)
    \/ MountLookupLock(t)
    \/ MountLookup(t)
    \/ MountInfoLock(t)
    \/ MountKlAcquire(t)
    \/ MountReadOnly(t)
    \/ MountBackend(t)
    \/ MountAppend(t)
    \/ MountAppendElement(t)
    \/ MountAddPathLock(t)
    \/ MountAddPath(t)

UnmountTableStep(t) ==
    \/ UnmountLookupLock(t)
    \/ UnmountLookup(t)
    \/ UnmountInfoLock(t)
    \/ UnmountBackend(t)
    \/ UnmountDeletePathLock(t)
    \/ UnmountDeletePath(t)
    \/ UnmountSwap(t)
    \/ UnmountTruncate(t)
    \/ UnmountTruncateEarly(t)
    \/ UnmountSwapLate(t)
    \/ UnmountMaybeRemoveLock(t)
    \/ UnmountMaybeRemove(t)

UnmountStep(t) ==
    UnmountTableStep(t) \/ UnmountRemovePath(t) \/ UnmountSchedule(t)

CallbackStep(s) ==
    \/ CallbackStart(s)
    \/ CallbackKlAcquire(s)
    \/ CallbackHasTargetLock(s)
    \/ CallbackHasTarget(s)
    \/ CallbackWriteable(s)
    \/ CallbackRemove(s)

Next ==
    \/ /\ calls < MaxCalls
       /\ \E t \in Threads, m \in Minors, d \in Devices, r \in RawPaths,
             fs \in FsTypes : MountCall(t, m, d, r, fs)
    \/ /\ calls < MaxCalls
       /\ \E t \in Threads, d \in Devices, r \in RawPaths, rm \in BOOLEAN :
             UnmountCall(t, d, r, rm)
    \/ /\ calls < MaxCalls
       /\ \E t \in Threads, p \in Paths : RemoveMountPathCall(t, p)
    \/ \E t \in Threads : MountStep(t) \/ UnmountStep(t) \/ Finish(t)
    \/ \E t \in Threads : RemoveMountPathSchedule(t)
    \/ \E s \in Schedulers : CallbackStep(s)

Spec == Init /\ [][Next]_vars

(***************************************************************************)
(* Mounting the same device at the same path with the same file system     *)
(* type, again and again, from every caller: the two spellings of the path *)
(* normalize to one.                                                       *)
(***************************************************************************)
TwiceDevice == "d1"
TwiceRawPaths == {PathA, PathASlash}
TwicePath == normalizeMountPath(PathA)
TwiceFs == "ext4"

NextTwice ==
    \/ /\ calls < MaxCalls
       /\ \E t \in Threads, m \in Minors, r \in TwiceRawPaths :
             MountCall(t, m, TwiceDevice, r, TwiceFs)
    \/ \E t \in Threads : MountStep(t) \/ Finish(t)

SpecTwice == Init /\ [][NextTwice]_vars

(***************************************************************************)
(* One device mounted and unmounted at two paths, without path removal and *)
(* without an allow-list: the longer histories of one device.              *)
(***************************************************************************)
MaxDeviceCalls == 5
OneDevice == "d1"
OneFs == "ext4"
OnePaths == {PathA, PathB}

InitOneDevice == Init /\ allowedDirs = <<>>

NextOneDevice ==
    \/ /\ calls < MaxDeviceCalls
       /\ \E t \in Threads, m \in Minors, r \in OnePaths :
             MountCall(t, m, OneDevice, r, OneFs)
    \/ /\ calls < MaxDeviceCalls
       /\ \E t \in Threads, r \in OnePaths :
             UnmountCall(t, OneDevice, r, FALSE)
    \/ \E t \in Threads : MountStep(t) \/ UnmountTableStep(t) \/ Finish(t)

SpecOneDevice == InitOneDevice /\ [][NextOneDevice]_vars

(***************************************************************************)
(* Every caller mounts once, each a device and a path no other caller      *)
(* uses, all at the same time.                                             *)
(***************************************************************************)
\* no other caller has asked for the device or the path
Distinct(t, device, path) ==
    \A u \in Threads \ {t} :
        call[u] # NoCall => call[u].device # device /\ call[u].path # path

NextDistinct ==
    \/ \E t \in Threads, m \in Minors, d \in Devices, r \in RawPaths,
          fs \in FsTypes :
            /\ Distinct(t, d, normalizeMountPath(r))
            /\ MountCall(t, m, d, r, fs)
    \/ \E t \in Threads : MountStep(t)

SpecDistinct == Init /\ [][NextDistinct]_vars

(***************************************************************************)
(* Every kind of call and the callbacks, with fair scheduling: a caller    *)
(* inside a call and a running callback take their next step whenever it   *)
(* is possible again and again (the backend returns, a lock that is freed  *)
(* again and again is eventually granted to each waiter).  Nothing obliges *)
(* a caller to start a call; each caller makes one call.                   *)
(***************************************************************************)
LiveFs == "ext4"

\* the table is empty and the scheduler may hold the task of an earlier
\* RemoveMountPath call
InitLive ==
    /\ allowedDirs = <<>>
    /\ mounts = [d \in Devices |-> 0]
    /\ infos = [i \in InfoIds |-> NoInfo]
    /\ ilock = [i \in InfoIds |-> None]
    /\ paths = [p \in Paths |-> None]
    /\ mlock = None
    /\ kl = [p \in Paths |-> None]
    /\ pc = [t \in Threads |-> "idle"]
    /\ call = [t \in Threads |-> NoCall]
    /\ linfo = [t \in Threads |-> 0]
    /\ lidx = [t \in Threads |-> 0]
    /\ ret = [t \in Threads |-> None]
    /\ touched = [t \in Threads |-> FALSE]
    /\ invoked = [t \in Threads |-> FALSE]
    /\ overlap = [t \in Threads |-> 0]
    /\ dirs = [p \in Paths |-> TRUE]
    /\ immutable = [p \in Paths |-> FALSE]
    /\ kmounts = [p \in Paths |-> 0]
    /\ \E k \in 0..MaxTasks : tasks = [p \in Paths |-> IF p = PathA THEN k ELSE 0]
    /\ cb = [s \in Schedulers |-> NoTask]
    /\ calls = 0

ExistsStep(t) == ExistsLock(t) \/ ExistsRead(t)

CallStep(t) ==
    \/ MountStep(t)
    \/ UnmountStep(t)
    \/ RemoveMountPathSchedule(t)
    \/ ExistsStep(t)

NextLive ==
    \/ \E t \in Threads, m \in Minors, d \in Devices, p \in Paths :
          MountCall(t, m, d, p, LiveFs)
    \/ \E t \in Threads, d \in Devices, p \in Paths, rm \in BOOLEAN :
          UnmountCall(t, d, p, rm)
    \/ \E t \in Threads, p \in Paths : RemoveMountPathCall(t, p)
    \/ \E t \in Threads, d \in Devices, p \in Paths : ExistsCall(t, d, p)
    \/ \E t \in Threads : CallStep(t)
    \/ \E s \in Schedulers : CallbackStep(s)

Fairness ==
    /\ \A t \in Threads : SF_vars(CallStep(t))
    /\ \A s \in Schedulers : SF_vars(CallbackStep(s))

SpecLive == InitLive /\ [][NextLive]_vars /\ Fairness

(***************************************************************************)
(* Properties.                                                             *)
(***************************************************************************)
\* no caller is inside a call
Quiescent == \A t \in Threads : pc[t] \in {"idle", "done"}

Returned(t, op) == pc[t] = "done" /\ call[t].op = op

\* the paths in the target collection of some entry of the device map
TargetPaths == {p \in Paths : HasTarget(p) # {}}

\* the keys of the reverse index
IndexedPaths == {p \in Paths : paths[p] # None}

\* C1: whenever no call is in progress, a path is a key of the reverse
\* index if and only if it is in the target collection of some entry of the
\* device map.  (The claim speaks of every reachable state; the states
\* between two calls are the ones every reading of it covers.)
C1_IndexMatchesTargets == Quiescent => IndexedPaths = TargetPaths

\* C2: in no reachable state does a path appear in the target collections
\* of two different device entries.
C2_OneDevicePerPath == \A p \in Paths : Cardinality(HasTarget(p)) <= 1

\* C3: once Mount(D, P) has returned success, and as long as no other call
\* on the same device and path has run beside it or started since, Mounts(D)
\* contains P and Exists(D, P) is true; calls on D at other paths may
\* interleave freely.
C3_MountedUntilUnmount ==
    \A t \in Threads :
        (Returned(t, "Mount") /\ ret[t] = Ok /\ overlap[t] <= 1)
            => /\ Exists(call[t].device, call[t].path)
               /\ ~MountsPanics(call[t].device)
               /\ call[t].path \in Range(Mounts(call[t].device))

\* C4: mounting the same (device, path, file system type) again and again,
\* one call after or beside the other: the backend mounts at most once, the
\* device has at most one target, a call that returns success leaves
\* Mounts(D) = [P] with one backend mount in total, and a call fails only
\* when its own chattr or its own backend call failed.
C4_MountTwiceIdempotent ==
    /\ kmounts[TwicePath] <= 1
    /\ HasMounts(TwiceDevice) <= 1
    /\ \A t \in Threads :
        pc[t] = "done" =>
            IF ret[t] = Ok
            THEN Mounts(TwiceDevice) = <<TwicePath>> /\ kmounts[TwicePath] = 1
            ELSE \/ ret[t] = ErrBackend /\ invoked[t]
                 \/ ret[t] = ErrReadOnlyFailed /\ ~invoked[t]

\* a second Mount has returned success without invoking the backend
C4_Witness ==
    \E t \in Threads :
        /\ Returned(t, "Mount") /\ ret[t] = Ok /\ ~invoked[t] /\ ~touched[t]
        /\ Mounts(TwiceDevice) = <<TwicePath>>

\* C5: a Mount whose check of the reverse index finds the path claimed by a
\* different device returns ErrExist at once and changes neither the device
\* map, nor any target collection, nor the reverse index, nor the backend;
\* a Mount that returned ErrExist has changed nothing and has not invoked
\* the backend.
C5_ClaimedPathRejected ==
    /\ [](\A t \in Threads :
            (Returned(t, "Mount") /\ ret[t] = ErrExist)
                => ~touched[t] /\ ~invoked[t])
    /\ [][\A t \in Threads :
            (/\ pc[t] = "hasPathCS"
             /\ pc'[t] # "hasPathCS"
             /\ paths[call[t].path] \notin {None, call[t].device})
                => /\ pc'[t] = "done"
                   /\ ret'[t] = ErrExist
                   /\ mounts' = mounts
                   /\ infos' = infos
                   /\ paths' = paths
                   /\ kmounts' = kmounts]_vars

\* a Mount of a device at a path another device holds has returned ErrExist
C5_Witness ==
    \E t \in Threads :
        /\ Returned(t, "Mount") /\ ret[t] = ErrExist
        /\ HasTarget(call[t].path) # {}
        /\ call[t].device \notin HasTarget(call[t].path)

\* the entry of the call's device has a file system type other than the
\* one the call asks for
EntryFsDiffers(t) ==
    /\ mounts[call[t].device] # 0
    /\ infos[mounts[call[t].device]].Fs # call[t].fs

\* C6 as claimed: whenever the device has an entry of another file system
\* type (and no other call on the device ran beside this one), Mount fails
\* with ErrEinval, invokes no backend and changes nothing.
C6_MismatchAlwaysEinval ==
    \A t \in Threads :
        (Returned(t, "Mount") /\ overlap[t] = 0 /\ EntryFsDiffers(t))
            => ret[t] = ErrEinval /\ ~touched[t] /\ ~invoked[t]

\* C6 as amended: a Mount that has passed the allow-list and the
\* reverse-index check and finds its device's entry with another file system
\* type fails with ErrEinval and changes nothing; a Mount of a device whose
\* entry has another type fails with ErrEinval, ErrExist or
\* ErrMountpathNotAllowed, without a backend call or a change; and the file
\* system type of an Info never changes.
C6_MismatchRejected ==
    /\ [](\A t \in Threads :
            (Returned(t, "Mount") /\ ret[t] = ErrEinval)
                => ~touched[t] /\ ~invoked[t])
    /\ [](\A t \in Threads :
            (Returned(t, "Mount") /\ overlap[t] = 0 /\ EntryFsDiffers(t))
                => /\ ret[t] \in {ErrEinval, ErrExist, ErrMountpathNotAllowed}
                   /\ ~touched[t] /\ ~invoked[t])
    /\ [][\A t \in Threads :
            (/\ pc[t] = "mInfoLock"
             /\ pc'[t] # "mInfoLock"
             /\ infos[linfo[t]].Fs # call[t].fs)
                => /\ pc'[t] = "done"
                   /\ ret'[t] = ErrEinval
                   /\ ~BookkeepingChanged
                   /\ kmounts' = kmounts]_vars
    /\ [][\A i \in InfoIds :
            (infos[i] # NoInfo /\ infos'[i] # NoInfo)
                => infos'[i].Fs = infos[i].Fs]_vars

\* a Mount has returned ErrEinval while the device's entry, of another file
\* system type, holds a target
C6_Witness ==
    \E t \in Threads :
        /\ Returned(t, "Mount") /\ ret[t] = ErrEinval
        /\ EntryFsDiffers(t)
        /\ HasMounts(call[t].device) > 0

\* C7: an Unmount that did not invoke the backend changed nothing and
\* returned ErrEnoent or success; it returns ErrEnoent when the device has no
\* entry, and success, without a backend call or a change, when the entry it
\* locked does not hold the path.
C7_UnmountNoMatch ==
    /\ [](\A t \in Threads :
            (Returned(t, "Unmount") /\ ~invoked[t])
                => ~touched[t] /\ ret[t] \in {ErrEnoent, Ok})
    /\ [][\A t \in Threads :
            (/\ pc[t] = "uLookupCS"
             /\ pc'[t] # "uLookupCS"
             /\ mounts[call[t].device] = 0)
                => /\ pc'[t] = "done"
                   /\ ret'[t] = ErrEnoent
                   /\ ~BookkeepingChanged]_vars
    /\ [][\A t \in Threads :
            (/\ pc[t] = "uInfoLock"
             /\ pc'[t] # "uInfoLock"
             /\ call[t].path \notin Range(InfoPaths(infos[linfo[t]])))
                => /\ pc'[t] = "done"
                   /\ ret'[t] = Ok
                   /\ ~invoked'[t]
                   /\ ~BookkeepingChanged
                   /\ kmounts' = kmounts]_vars

\* one Unmount of a known device at a path it does not hold has returned
\* success, another Unmount of an unknown device has returned ErrEnoent
C7_Witness ==
    \E t, u \in Threads :
        /\ Returned(t, "Unmount") /\ ret[t] = Ok /\ ~invoked[t]
        /\ HasMounts(call[t].device) > 0
        /\ Returned(u, "Unmount") /\ ret[u] = ErrEnoent

\* C8: an Unmount whose backend call fails returns the backend's error and
\* has changed nothing: the step that fails leaves the device map, the
\* target collections and the reverse index as they are, with the target
\* still in the entry; with no other call beside it on the device, the
\* device is still mounted at the path afterwards; and an Unmount that finds
\* the target always goes on to invoke the backend.
C8_UnmountFailureKeepsTable ==
    /\ [](\A t \in Threads :
            (Returned(t, "Unmount") /\ ret[t] = ErrBackend)
                => /\ ~touched[t] /\ invoked[t]
                   /\ overlap[t] = 0 => Exists(call[t].device, call[t].path))
    /\ [][\A t \in Threads :
            (pc[t] = "uBackend" /\ pc'[t] = "done")
                => /\ ret'[t] = ErrBackend
                   /\ ~BookkeepingChanged
                   /\ kmounts' = kmounts
                   /\ call[t].path \in Range(InfoPaths(infos[linfo[t]]))]_vars
    /\ [][\A t \in Threads :
            (/\ pc[t] = "uInfoLock"
             /\ pc'[t] # "uInfoLock"
             /\ call[t].path \in Range(InfoPaths(infos[linfo[t]])))
                => pc'[t] = "uBackend"]_vars

\* an Unmount has returned the backend's error, the mount still recorded
C8_Witness ==
    \E t \in Threads :
        /\ Returned(t, "Unmount") /\ ret[t] = ErrBackend
        /\ Exists(call[t].device, call[t].path)
        /\ paths[call[t].path] = call[t].device

\* C9: a Mount whose backend call failed has made no bookkeeping change:
\* the device map, every target collection and the reverse index are as
\* they were.
C9_FailedMountNoBookkeeping ==
    \A t \in Threads :
        (Returned(t, "Mount") /\ ret[t] = ErrBackend) => ~touched[t]

\* C10: when an Unmount with no other call on its device beside it has
\* removed the last target of the Info, then after maybeRemoveDevice the
\* device is not in the device map (GetSourcePaths, HasMounts) and the
\* reverse index holds no path of the device.
C10_LastUnmountForgetsDevice ==
    [][\A t \in Threads :
        (/\ pc[t] = "uMaybeRemoveCS"
         /\ pc'[t] # "uMaybeRemoveCS"
         /\ overlap[t] = 0
         /\ Len(infos[linfo[t]].Mountpoint) = 0)
            => /\ mounts'[call[t].device] = 0
               /\ \A p \in Paths : paths'[p] # call[t].device]_vars

\* the chattr of Mount and the backend did not fail in the caller's call
EnvironmentSucceeded(t) == ret[t] \notin {ErrReadOnlyFailed, ErrBackend}

\* the backend did not fail in the caller's call
BackendSucceeded(t) == ret[t] # ErrBackend

\* C11 as stated: N callers mount N distinct devices at N distinct paths at
\* the same time and the backend succeeds.  Every call returns success and
\* leaves its device with exactly its path as target and the reverse index
\* with its path recorded for its device; when all N have returned the device
\* map has exactly N entries of one target each and the reverse index exactly
\* N records.
C11_BackendSuccessSuffices ==
    /\ \A t \in Threads :
        (Returned(t, "Mount") /\ BackendSucceeded(t))
            => /\ ret[t] = Ok
               /\ Mounts(call[t].device) = <<call[t].path>>
               /\ paths[call[t].path] = call[t].device
    /\ (\A t \in Threads : Returned(t, "Mount") /\ BackendSucceeded(t))
            => /\ Cardinality(GetSourcePaths) = Cardinality(Threads)
               /\ \A d \in GetSourcePaths : HasMounts(d) = 1
               /\ Cardinality(IndexedPaths) = Cardinality(Threads)

\* C11: N callers mount N distinct devices at N distinct paths at the same
\* time.  A call the allow-list admits and whose chattr and backend call
\* succeed returns success and leaves its device with exactly its path as
\* target and the reverse index with its path recorded for its device; when
\* all N have returned success the device map has exactly N entries and the
\* reverse index exactly N records.  A call the allow-list does not admit
\* returns ErrMountpathNotAllowed without the backend invoked and leaves no
\* entry for its device and no record for its path; a call whose chattr fails
\* returns that error without the backend invoked and leaves no record for
\* its path, and for its device the entry without targets that lines 318-329
\* inserted.  A call fails for no other reason than these and a failing
\* backend: the calls beside it never make it fail.
C11_DistinctMountsAllRecorded ==
    /\ \A t \in Threads :
        (/\ Returned(t, "Mount")
         /\ PathAllowed(allowedDirs, call[t].path)
         /\ EnvironmentSucceeded(t))
            => /\ ret[t] = Ok
               /\ Mounts(call[t].device) = <<call[t].path>>
               /\ paths[call[t].path] = call[t].device
    /\ (\A t \in Threads : Returned(t, "Mount") /\ ret[t] = Ok)
            => /\ Cardinality(GetSourcePaths) = Cardinality(Threads)
               /\ \A d \in GetSourcePaths : HasMounts(d) = 1
               /\ Cardinality(IndexedPaths) = Cardinality(Threads)
    /\ \A t \in Threads :
        (Returned(t, "Mount") /\ ~PathAllowed(allowedDirs, call[t].path))
            => /\ ret[t] = ErrMountpathNotAllowed
               /\ ~invoked[t]
               /\ call[t].device \notin GetSourcePaths
               /\ paths[call[t].path] = None
    /\ \A t \in Threads :
        (Returned(t, "Mount") /\ ret[t] = ErrReadOnlyFailed)
            => /\ PathAllowed(allowedDirs, call[t].path)
               /\ ~invoked[t]
               /\ paths[call[t].path] = None
               /\ call[t].device \in GetSourcePaths
               /\ HasMounts(call[t].device) = 0
    /\ \A t \in Threads :
        Returned(t, "Mount")
            => ret[t] \in {Ok, ErrMountpathNotAllowed, ErrReadOnlyFailed,
                           ErrBackend}

\* all callers have returned success from Mount calls that ran beside each
\* other, each having invoked the backend
C11_Witness ==
    /\ \A t \in Threads :
        Returned(t, "Mount") /\ ret[t] = Ok /\ invoked[t] /\ touched[t]
    /\ \E t, u \in Threads : t # u /\ call[t].device # call[u].device
    /\ Cardinality(GetSourcePaths) = Cardinality(Threads)

\* C12: when the scheduler rejects the delayed-removal task, the call that
\* asked for it returns the scheduler's error: RemoveMountPath does, and so
\* does an Unmount called with removePath = true.
C12_ScheduleErrorReturned ==
    [][\A t \in Threads :
        (/\ pc'[t] = "done"
         /\ pc[t] \in {"uSchedule", "rSchedule"}
         /\ tasks' = tasks)
            => ret'[t] = ErrSchedule]_vars

\* C13: a callback that finds its path a mount target of some device
\* (HasTarget, line 444) leaves the immutable attribute as it is and does not
\* go on to os.Remove.
C13_MountedPathLeftAlone ==
    /\ [](\A s \in Schedulers : cb[s].pc = "cRemove" => ~cb[s].mounted)
    /\ [][\A s \in Schedulers :
            (cb[s].pc = "cWriteable" /\ cb'[s].pc # "cWriteable" /\ cb[s].mounted)
                => immutable' = immutable]_vars

\* the caller or callback holds the lock of an Info or of a path
HoldsEntryOrPathLock(p) ==
    \/ \E i \in InfoIds : ilock[i] = p
    \/ \E q \in Paths : kl[q] = p

\* C14: whoever holds the table lock holds neither the lock of an Info nor
\* the lock of a path, in Mount, in Unmount and in the callback.
C14_TableLockNotUnderOtherLocks ==
    \A p \in Procs : mlock = p => ~HoldsEntryOrPathLock(p)

\* the caller is inside a call
InCall(t) == pc[t] \notin {"idle", "done"}

\* the caller or callback holds some lock
HoldsLock(p) == mlock = p \/ HoldsEntryOrPathLock(p)

\* C15: with fair scheduling, every call that has started returns and every
\* callback that has started ends, whatever runs beside them; a caller that
\* has returned and a callback that has ended hold no lock.
C15_EveryCallReturns ==
    /\ [](\A t \in Threads : ~InCall(t) => ~HoldsLock(t))
    /\ [](\A s \in Schedulers : cb[s].pc = "idle" => ~HoldsLock(s))
    /\ \A t \in Threads : InCall(t) ~> pc[t] = "done"
    /\ \A s \in Schedulers : (cb[s].pc # "idle") ~> (cb[s].pc = "idle")

\* the caller is at Mount's chattr +i or backend mount of the path
MountEffect(t, path) ==
    call[t].path = path /\ pc[t] \in {"mReadOnly", "mBackend"}

\* the caller is at Unmount's backend unmount of the path
UnmountEffect(t, path) == call[t].path = path /\ pc[t] = "uBackend"

\* the callback is at its chattr -i (run when HasTarget found the path not
\* mounted and the directory exists) or at its os.Remove of the path
CallbackEffect(s, path) ==
    /\ cb[s].path = path
    /\ \/ cb[s].pc = "cWriteable" /\ ChattrRuns(s)
       \/ cb[s].pc = "cRemove"

\* the callers and callbacks at a side effect on the path
AtEffect(path) ==
    {t \in Threads : MountEffect(t, path) \/ UnmountEffect(t, path)}
        \cup {s \in Schedulers : CallbackEffect(s, path)}

\* C16: for each path, at most one of Mount's attribute toggle and backend
\* mount, Unmount's backend unmount and the callback's attribute clear and
\* directory delete is in progress at a time.
C16_SideEffectsExclusive == \A p \in Paths : Cardinality(AtEffect(p)) <= 1

\* C17: the callback goes on to os.Remove only when its chattr -i has
\* succeeded, or was not run because the directory does not exist; after a
\* failed chattr -i it does not.
C17_RemoveOnlyAfterClear ==
    \A s \in Schedulers :
        cb[s].pc = "cRemove"
            => \/ cb[s].chattr = "ok"
               \/ cb[s].chattr = None /\ ~cb[s].mounted /\ ~dirs[cb[s].path]

\* C18: once an Unmount with no other call on its device beside it or
\* after it has returned, the device is not left in the device map with
\* zero targets: an entry a failed first Mount left behind is gone from
\* GetSourcePaths.
C18_EmptyEntryCollected ==
    \A t \in Threads :
        (/\ Returned(t, "Unmount")
         /\ overlap[t] = 0
         /\ call[t].device \in GetSourcePaths)
            => HasMounts(call[t].device) > 0

\* C19: a Mount, with no other call on its device beside it or after it,
\* has returned ErrEinval only if the device has at least one target,
\* recorded with another file system type than the one asked for; a device
\* without a target can be mounted with any type.
C19_MismatchOnlyWhenMounted ==
    \A t \in Threads :
        (Returned(t, "Mount") /\ ret[t] = ErrEinval /\ overlap[t] = 0)
            => HasMounts(call[t].device) > 0 /\ EntryFsDiffers(t)

\* C20: the backend mount is never invoked for a path on which an earlier
\* successful backend mount has not been reversed by a successful backend
\* unmount.
C20_MountedOnce ==
    [][\A t \in Threads :
        (pc[t] = "mBackend" /\ pc'[t] # "mBackend")
            => kmounts[call[t].path] = 0]_vars

====
